---- MODULE Spec2Model ----
(***************************************************************************)
(* Model of the image-upload plugin variants of the repository:            *)
(*   "index"    src/index.js            Enhanced-Image-Handler (English)   *)
(*   "part_000" src/unnamed/part_000    stable-image-uploader (fetch)      *)
(*   "part_001" src/unnamed/part_001    Enhanced-Image-Handler             *)
(*   "part_002" src/unnamed/part_002    Enhanced-Image-Handler + adapter   *)
(* Every await of the code is a step; the host (getBase64Async,            *)
(* saveBase64AsFile, context.characters, fetch, timers) answers in steps   *)
(* of its own, so calls interleave exactly where the code awaits.          *)
(***************************************************************************)
EXTENDS Integers, Sequences, FiniteSets, TLC

VARIABLES
    variant,      \* which script is loaded in the page
    aliased,      \* window.extension_settings is the host's extension_settings object
    winSettings,  \* window.extension_settings[extensionName]
    modSettings,  \* extension_settings[extensionName] (the imported module object)
    initPc,       \* position of the jQuery ready callback: "loaded", "merged", "done"
    panel,        \* settings panel: checked/value of the inputs, disabled of the controls
    now,          \* new Date().getTime()
    calls,        \* one record per hook call / event handler invocation
    pending,      \* host operations that were called and have not settled
    ui,           \* part_000: progress, result box, chat input, toasts
    eqIn,         \* the inputs shared by the three hook variants (equivalence runs)
    dom           \* image elements and FileReader results of the page, by kind of URL

vars == <<variant, aliased, winSettings, modSettings, initPc, panel, now, calls,
          pending, ui, eqIn, dom>>

-----------------------------------------------------------------------------
(* Bounds of the model *)

MaxCalls == 2
MaxClock == 1
MaxBatch == 2
MaxInitRuns == 3

CallIds == 1..MaxCalls

-----------------------------------------------------------------------------
(* JavaScript values *)

Undef == "undefined"

Truthy(x) == x \notin {"false", Undef, ""}

Bool(b) == IF b THEN "true" ELSE "false"

Variants == {"index", "part_000", "part_001", "part_002"}

HookVariants == {"index", "part_001", "part_002"}

SettingKeys == {"image_handler_enabled", "auto_save_images",
                "use_timestamp_prefix", "image_quality"}

defaultSettings ==
    [image_handler_enabled |-> "true", auto_save_images |-> "true",
     use_timestamp_prefix |-> "true", image_quality |-> "original"]

EmptySettings == [k \in SettingKeys |-> Undef]

-----------------------------------------------------------------------------
(* Files.  A File's type is kept split at "/" (type.split("/")), its bytes
   are named by a string, its size is in MB. *)

MkFile(tag, mime, name, bytes, size) ==
    [tag |-> tag, mime |-> mime, name |-> name, bytes |-> bytes, size |-> size]

NoFile    == MkFile("none", <<>>, "", "", 0)
PngFile   == MkFile("file", <<"image", "png">>, "a.png", "bytes-a", 1)
BareImage == MkFile("file", <<"image", "">>, "", "bytes-b", 1)     \* type "image/", no name
TextFile  == MkFile("file", <<"text", "plain">>, "n.txt", "bytes-n", 1)
NoTypeObj == MkFile("notype", <<>>, "o.bin", "bytes-o", 1)          \* object without .type
NullFile  == MkFile("null", <<>>, "", "", 0)                        \* null / undefined
JpegFile  == MkFile("file", <<"image", "jpeg">>, "j.jpg", "bytes-j", 1)
BigPng    == MkFile("file", <<"image", "png">>, "big.png", "bytes-B", 6)
BmpFile   == MkFile("file", <<"image", "bmp">>, "c.bmp", "bytes-c", 1)
HugeJpeg  == MkFile("file", <<"image", "jpeg">>, "h.jpg", "bytes-h", 40)

\* imageFile.type.startsWith("image/")
StartsWithImage(f) == Len(f.mime) >= 2 /\ f.mime[1] = "image"

\* imageFile.type.split("/")[1] || "png"
FileExtension(f) == IF Len(f.mime) >= 2 /\ f.mime[2] # "" THEN f.mime[2] ELSE "png"

\* getStringHash(imageFile.name || "image"): a host function of the string
HashSuffix(f) == IF f.name # "" THEN <<"hash", f.name>> ELSE <<"hash", "image">>

\* timestampPrefix + hashSuffix; ts = -1 stands for the empty prefix ""
FilePrefix(s, t, f) ==
    [ts |-> IF Truthy(s.use_timestamp_prefix) THEN t ELSE -1, hash |-> HashSuffix(f)]

NoPrefix == [ts |-> -1, hash |-> <<>>]

\* what getBase64Async resolves with: "data:<type>;base64,<bytes>" split at ","
DataUrl(f) == <<f.mime, f.bytes>>

\* base64String.split(",")[1]
Base64Content(dataUrl) == dataUrl[2]

-----------------------------------------------------------------------------
(* Host context: getContext() / window.SillyTavern.getContext() *)

Characters == << [avatar |-> "a.png", name |-> "Alice"],
                 [avatar |-> "b.png", name |-> "Bob"] >>

\* context.characterId as the host may hand it out: none selected, an array
\* index, or an avatar file name
CharacterIds == {Undef, "1", "b.png"}

\* JavaScript array indexing characterList[id] (0-based); 0 = no such element
ArrayIndex(id) == CASE id = "0" -> 1 [] id = "1" -> 2 [] OTHER -> 0

\* index.js: characterList.find(c => c.avatar === activeCharacterId)
FindByAvatar(list, id) ==
    LET hits == {i \in 1..Len(list) : list[i].avatar = id}
    IN IF hits = {} THEN 0 ELSE CHOOSE i \in hits : \A j \in hits : i <= j

\* part_001 / part_002: characterList[activeCharacterId]
LookupIndexed(list, id) ==
    IF ArrayIndex(id) \in 1..Len(list) THEN ArrayIndex(id) ELSE 0

CurrentCharacter(v, list, id) ==
    IF v = "index" THEN FindByAvatar(list, id) ELSE LookupIndexed(list, id)

\* currentCharacter ? currentCharacter.name : "default"
CharacterDisplayName(v, list, id) ==
    LET i == CurrentCharacter(v, list, id)
    IN IF i = 0 THEN "default" ELSE list[i].name

-----------------------------------------------------------------------------
(* Errors and promise outcomes *)

Err(name, message) == [name |-> name, message |-> message]

NoErr == Err("", <<>>)

MsgDisabled == <<"Enhanced Image Handler is disabled.">>

\* the messages of part_001 / part_002 are Chinese; "zh:" names them
MsgInvalid(v) ==
    IF v = "index" THEN <<"Please provide a valid image file.">>
    ELSE <<"zh:please provide a valid image file">>

MsgFailedPrefix(v) ==
    IF v = "index" THEN "Image processing failed: " ELSE "zh:image processing failed: "

MsgTypeError == <<"Cannot read properties of undefined (reading 'startsWith')">>

MsgCompatDisabled == <<"zh:enhanced image handling is not enabled">>

MsgBatchArg(v) ==
    IF v = "index" THEN <<"Please provide an array of image files.">>
    ELSE <<"zh:please provide an array of image files">>

NoName == [prefix |-> NoPrefix, ext |-> ""]

\* the settled or pending promise of window.__processImageUpload
NoOutcome ==
    [st |-> "pending", url |-> "", filename |-> NoName, character |-> "", err |-> NoErr]

Fulfilled(url, filename, character) ==
    [st |-> "fulfilled", url |-> url, filename |-> filename,
     character |-> character, err |-> NoErr]

Rejected(e) ==
    [st |-> "rejected", url |-> "", filename |-> NoName, character |-> "", err |-> e]

\* the URLs saveBase64AsFile may answer with
Urls == {"/user/images/1.png", "/user/images/2.png"}

HostFailure == Err("Error", <<"host failure">>)

-----------------------------------------------------------------------------
(* One record per invocation: a hook call made by another script, or one run
   of an event handler.  kind says which entry point it came through. *)

Ev(name, i) == [ev |-> name, i |-> i]

NoRet == [st |-> "pending", fields |-> {}, url |-> "", err |-> NoErr]

IdleCall ==
    [v |-> "", kind |-> "idle", pc |-> "idle",
     file |-> NoFile, charId |-> Undef, content |-> "", ext |-> "",
     prefix |-> NoPrefix, character |-> "",
     saves |-> <<>>,       \* every invocation of saveBase64AsFile, with its answer
     proc |-> NoOutcome,   \* the promise of the running window.__processImageUpload
     ret |-> NoRet,        \* the promise of the wrapper (adapter hook, batch)
     files |-> <<>>, idx |-> 0, results |-> <<>>,
     retry |-> 0, fetches |-> 0, url |-> "",
     hostUrl |-> "",       \* part_000: the url of the image host's last answer
     sawEnabled |-> Undef, \* the adapter hook: image_handler_enabled as it read it
     toasts |-> <<>>, trace |-> <<>>]

\* the operations of the host a call can be waiting for
HostOps == {"getBase64Async", "characters", "saveBase64AsFile",
            "compressImage", "fetch", "json", "delay"}

\* position of the element being processed (1 outside a batch)
ElemIndex(k) == k.idx + 1

ProcReject(k, e) ==
    [k EXCEPT !.pc = "settled", !.proc = Rejected(e),
              !.trace = Append(@, Ev("reject", ElemIndex(k)))]

\* catch (error) { throw new Error(`Image processing failed: ${error.message}`) }
ProcCatch(k, e) ==
    ProcReject(k, Err("Error", <<MsgFailedPrefix(k.v)>> \o e.message))

\* ProcessStart without the encoding step: the file goes straight to the save
ProcessStartNoEncode(k, f) ==
    [k EXCEPT !.file = f, !.proc = NoOutcome, !.pc = "characters",
              !.content = f.bytes, !.ext = FileExtension(f)]

\* window.__processImageUpload up to its first await
ProcessStart(k, f) ==
    LET k0 == [k EXCEPT !.file = f, !.proc = NoOutcome, !.charId = Undef,
                        !.content = "", !.ext = "", !.prefix = NoPrefix,
                        !.character = ""]
    IN IF k.v = "index" /\ ~Truthy(winSettings.image_handler_enabled)
       THEN ProcReject(k0, Err("Error", MsgDisabled))
       ELSE IF f.tag = "null"
       THEN ProcReject(k0, Err("Error", MsgInvalid(k.v)))
       ELSE IF f.tag = "notype"
       THEN ProcReject(k0, Err("TypeError", MsgTypeError))
       ELSE IF ~StartsWithImage(f)
       THEN ProcReject(k0, Err("Error", MsgInvalid(k.v)))
       ELSE [k0 EXCEPT !.pc = "getBase64Async",
                       !.trace = Append(@, Ev("getBase64Async", ElemIndex(k)))]

\* getBase64Async settled: the code up to `await context.characters`
OnBase64(k, ok, t, cid) ==
    IF ok
    THEN [k EXCEPT !.pc = "characters",
                   !.content = Base64Content(DataUrl(k.file)),
                   !.ext = FileExtension(k.file),
                   !.prefix = FilePrefix(winSettings, t, k.file),
                   !.charId = cid,
                   !.trace = Append(@, Ev("getBase64Async.ok", ElemIndex(k)))]
    ELSE ProcCatch(k, HostFailure)

\* context.characters settled: the code up to `await saveBase64AsFile(...)`
OnCharacters(k, list) ==
    LET name == CharacterDisplayName(k.v, list, k.charId)
    IN [k EXCEPT !.pc = "saveBase64AsFile",
                 !.character = name,
                 !.saves = Append(@, [content |-> k.content, folder |-> name,
                                      prefix |-> k.prefix, ext |-> k.ext,
                                      returned |-> ""]),
                 !.trace = Append(@, Ev("saveBase64AsFile", ElemIndex(k)))]

\* ResultUrl answering a url kept from an earlier save
ResultUrlStale(savedImageUrl) == "/user/images/1.png"

\* the url of the success result
ResultUrl(savedImageUrl) == savedImageUrl

\* saveBase64AsFile settled: the result object, or the catch block
OnSaved(k, ok, url) ==
    IF ok
    THEN [k EXCEPT !.pc = "settled",
                   !.saves[Len(k.saves)].returned = url,
                   !.proc = Fulfilled(ResultUrl(url),
                                      [prefix |-> k.prefix, ext |-> k.ext],
                                      k.character),
                   !.trace = @ \o <<Ev("saveBase64AsFile.ok", ElemIndex(k)),
                                    Ev("return", ElemIndex(k))>>]
    ELSE ProcCatch(k, HostFailure)

-----------------------------------------------------------------------------
(* The callers of window.__processImageUpload: what each does once the
   promise has settled. *)

Toast(k, level) == [k EXCEPT !.toasts = Append(@, level)]

\* onTestUpload's onchange: toastr.success(...) / catch: toastr.error(...)
TestContinue(k) ==
    [Toast(k, IF k.proc.st = "fulfilled" THEN "success" ELSE "error")
        EXCEPT !.pc = "done"]

\* CompatResult handing the whole processing result through
CompatResultWhole(o) ==
    [st |-> "fulfilled", fields |-> {"success", "url", "filename", "character"},
     url |-> o.url, err |-> NoErr]

\* what the adapter hands to the phone UI: { url: result.url }
CompatResult(o) == [st |-> "fulfilled", fields |-> {"url"}, url |-> o.url, err |-> NoErr]

\* top.window.__uploadImageByPlugin after `await window.__processImageUpload(file)`
CompatContinue(k) ==
    IF k.proc.st = "fulfilled"
    THEN [k EXCEPT !.pc = "done", !.ret = CompatResult(k.proc)]
    ELSE [k EXCEPT !.pc = "done",
                   !.ret = [st |-> "rejected", fields |-> {}, url |-> "",
                            err |-> k.proc.err]]

SuccessEntry(o) ==
    [fields |-> {"success", "url", "filename", "character"}, success |-> "true",
     url |-> o.url, filename |-> o.filename, character |-> o.character,
     error |-> <<>>, name |-> ""]

\* { success: false, error: error.message, filename: file.name }
FailureEntry(e, f) ==
    [fields |-> {"success", "error", "filename"}, success |-> "false",
     url |-> "", filename |-> NoName, character |-> "",
     error |-> e.message, name |-> f.name]

MsgNullName == <<"Cannot read properties of null (reading 'name')">>

\* the element the for-of loop takes next
BatchNextIndex(k) == k.idx + 1

RECURSIVE BatchRunNoAwait(_)

\* BatchRun without the await: every element is started, none is waited for
BatchRunNoAwait(k) ==
    IF k.idx >= Len(k.files)
    THEN [k EXCEPT !.pc = "done",
                   !.ret = [st |-> "fulfilled", fields |-> {}, url |-> "",
                            err |-> NoErr]]
    ELSE BatchRunNoAwait([ProcessStart(k, k.files[k.idx + 1]) EXCEPT !.idx = @ + 1])

RECURSIVE BatchRun(_), BatchSettle(_)

\* window.__processBatchImages: the loop from the next element up to the next
\* await that leaves the call waiting for the host
BatchRun(k) ==
    IF k.idx >= Len(k.files)
    THEN [k EXCEPT !.pc = "done",
                   !.ret = [st |-> "fulfilled", fields |-> {}, url |-> "",
                            err |-> NoErr]]
    ELSE LET p == ProcessStart(k, k.files[BatchNextIndex(k)])
         IN IF p.pc = "settled" THEN BatchSettle(p) ELSE p

\* the body of the loop after `await window.__processImageUpload(file)`
BatchSettle(k) ==
    LET i == ElemIndex(k)
        f == k.file
        done == [k EXCEPT !.trace = Append(@, Ev("settled", i))]
    IN IF k.proc.st = "fulfilled"
       THEN BatchRun([done EXCEPT !.results = Append(@, SuccessEntry(k.proc)),
                                  !.idx = i])
       ELSE IF f.tag = "null"
       THEN \* file.name of null throws inside the catch block
            [done EXCEPT !.pc = "done",
                         !.ret = [st |-> "rejected", fields |-> {}, url |-> "",
                                  err |-> Err("TypeError", MsgNullName)]]
       ELSE BatchRun([done EXCEPT !.results = Append(@, FailureEntry(k.proc.err, f)),
                                  !.idx = i])

\* a settled window.__processImageUpload resumes its caller
Continue(k) ==
    CASE k.kind = "test"   -> TestContinue(k)
      [] k.kind = "compat" -> CompatContinue(k)
      [] k.kind = "batch"  -> BatchSettle(k)
      [] OTHER             -> [k EXCEPT !.pc = "done"]

Settle(k) == IF k.pc = "settled" THEN Continue(k) ELSE k

\* top.window.__uploadImageByPlugin up to its await
CompatStart(k, f) ==
    IF ~Truthy(k.sawEnabled)
    THEN [k EXCEPT !.pc = "done", !.file = f,
                   !.ret = [st |-> "rejected", fields |-> {}, url |-> "",
                            err |-> Err("Error", MsgCompatDisabled)]]
    ELSE Settle(ProcessStart(k, f))

\* the host operation a call is left waiting for
Awaits(c, k) == IF k.pc \in HostOps THEN {[call |-> c, op |-> k.pc]} ELSE {}

Waiting(c, op) == [call |-> c, op |-> op] \in pending

\* Move that starts the next host operation without retiring the answered one
MoveKeep(c, k) ==
    /\ calls' = [calls EXCEPT ![c] = k]
    /\ pending' = pending \cup Awaits(c, k)

\* call c moves to k: its answered request is gone, its new one is out
Move(c, k) ==
    /\ calls' = [calls EXCEPT ![c] = k]
    /\ pending' = {r \in pending : r.call # c} \cup Awaits(c, k)

\* slots are taken in order
Free(c) ==
    /\ calls[c].kind = "idle"
    /\ IF c = 1 THEN TRUE ELSE calls[c - 1].kind # "idle"

NewCall(kind) == [IdleCall EXCEPT !.v = variant, !.kind = kind]

-----------------------------------------------------------------------------
(* Settings and the settings panel *)

Controls == {"auto_save_toggle", "timestamp_prefix_toggle",
             "image_quality_select", "test_upload_btn"}

Qualities == {"original", "high"}

\* index.js: Object.assign(extensionSettings, {...defaultSettings, ...extensionSettings})
MergeDefaults(s) ==
    [k \in SettingKeys |-> IF s[k] # Undef THEN s[k] ELSE defaultSettings[k]]

\* part_001 / part_002: defaults only when Object.keys(settings).length === 0
MergeIfEmpty(s) ==
    IF \A k \in SettingKeys : s[k] = Undef THEN defaultSettings ELSE s

\* the object the handlers of variant v read and write
PanelSettings(v) == IF v = "index" THEN winSettings ELSE modSettings

\* the handlers of index.js write extensionSettings (the window object), those
\* of part_001 / part_002 write extension_settings[extensionName]
WriteSettings(v, s) ==
    IF v = "index"
    THEN /\ winSettings' = s
         /\ modSettings' = IF aliased THEN s ELSE modSettings
    ELSE /\ modSettings' = s
         /\ winSettings' = IF aliased THEN s ELSE winSettings

\* $(...).prop("checked", x): jQuery ignores a set of undefined
PropChecked(old, x) == IF x = Undef THEN old ELSE x

\* $(...).val(x): undefined is written as ""
PropVal(x) == IF x = Undef THEN "" ELSE x

\* ControlsState that never disables a control
ControlsStateStuck(isEnabled) == [c \in Controls |-> FALSE]

\* .prop("disabled", !isEnabled) on the four dependent controls
ControlsState(isEnabled) == [c \in Controls |-> ~Truthy(isEnabled)]

\* initializeSettings, after the merge: the inputs show the settings
ShowSettings(p, s) ==
    [checked |->
        [image_handler_enabled |->
             PropChecked(p.checked.image_handler_enabled, s.image_handler_enabled),
         auto_save_images |->
             PropChecked(p.checked.auto_save_images, s.auto_save_images),
         use_timestamp_prefix |->
             PropChecked(p.checked.use_timestamp_prefix, s.use_timestamp_prefix),
         image_quality |-> PropVal(s.image_quality)],
     disabled |-> ControlsState(s.image_handler_enabled)]

InitialPanel ==
    [checked |-> [image_handler_enabled |-> "false", auto_save_images |-> "false",
                  use_timestamp_prefix |-> "false", image_quality |-> "original"],
     disabled |-> [c \in Controls |-> FALSE]]

\* index.js initializeSettings up to `await new Promise(... ready ...)`
ReadyMerge ==
    /\ variant = "index"
    /\ initPc = "loaded"
    /\ WriteSettings("index", MergeDefaults(winSettings))
    /\ initPc' = "merged"
    /\ UNCHANGED <<variant, aliased, panel, now, calls, pending, ui, eqIn, dom>>

\* index.js: the rest of initializeSettings, then the handlers are bound
ReadyShow ==
    /\ variant = "index"
    /\ initPc = "merged"
    /\ panel' = ShowSettings(panel, winSettings)
    /\ initPc' = "done"
    /\ UNCHANGED <<variant, aliased, winSettings, modSettings, now, calls,
                   pending, ui, eqIn, dom>>

\* part_001 / part_002: the jQuery callback binds the handlers and runs
\* initializeSettings, which has no await
ReadyInit ==
    /\ variant \in {"part_001", "part_002"}
    /\ initPc = "loaded"
    /\ WriteSettings(variant, MergeIfEmpty(modSettings))
    /\ panel' = ShowSettings(panel, MergeIfEmpty(modSettings))
    /\ initPc' = "done"
    /\ UNCHANGED <<variant, aliased, now, calls, pending, ui, eqIn, dom>>

\* onImageHandlerToggle
OnImageHandlerToggle(b) ==
    /\ variant \in HookVariants
    /\ initPc = "done"
    /\ WriteSettings(variant,
           [PanelSettings(variant) EXCEPT !.image_handler_enabled = Bool(b)])
    /\ panel' = [panel EXCEPT !.checked.image_handler_enabled = Bool(b),
                              !.disabled = ControlsState(Bool(b))]
    /\ UNCHANGED <<variant, aliased, initPc, now, calls, pending, ui, eqIn, dom>>

\* onAutoSaveToggle
OnAutoSaveToggle(b) ==
    /\ variant \in HookVariants
    /\ initPc = "done"
    /\ WriteSettings(variant,
           [PanelSettings(variant) EXCEPT !.auto_save_images = Bool(b)])
    /\ panel' = [panel EXCEPT !.checked.auto_save_images = Bool(b)]
    /\ UNCHANGED <<variant, aliased, initPc, now, calls, pending, ui, eqIn, dom>>

\* onTimestampToggle
OnTimestampToggle(b) ==
    /\ variant \in HookVariants
    /\ initPc = "done"
    /\ WriteSettings(variant,
           [PanelSettings(variant) EXCEPT !.use_timestamp_prefix = Bool(b)])
    /\ panel' = [panel EXCEPT !.checked.use_timestamp_prefix = Bool(b)]
    /\ UNCHANGED <<variant, aliased, initPc, now, calls, pending, ui, eqIn, dom>>

\* onQualityChange
OnQualityChange(q) ==
    /\ variant \in HookVariants
    /\ initPc = "done"
    /\ WriteSettings(variant, [PanelSettings(variant) EXCEPT !.image_quality = q])
    /\ panel' = [panel EXCEPT !.checked.image_quality = q]
    /\ UNCHANGED <<variant, aliased, initPc, now, calls, pending, ui, eqIn, dom>>

-----------------------------------------------------------------------------
(* Entry points of index.js, part_001 and part_002 *)

\* another script calls window.__processImageUpload(f)
HookCall(c, f) ==
    /\ variant \in HookVariants
    /\ Free(c)
    /\ Move(c, Settle(ProcessStart(NewCall("process"), f)))
    /\ UNCHANGED <<variant, aliased, winSettings, modSettings, initPc, panel, now,
                   ui, eqIn, dom>>

\* part_002: the phone UI calls top.window.__uploadImageByPlugin(f)
CompatCall(c, f) ==
    /\ variant = "part_002"
    /\ Free(c)
    /\ Move(c, CompatStart([NewCall("compat") EXCEPT
                                !.sawEnabled = modSettings.image_handler_enabled], f))
    /\ UNCHANGED <<variant, aliased, winSettings, modSettings, initPc, panel, now,
                   ui, eqIn, dom>>

\* onTestUpload: a click on #test_upload_btn opens a file picker
TestClick(c) ==
    /\ variant \in HookVariants
    /\ initPc = "done"
    /\ Free(c)
    /\ IF ~Truthy(PanelSettings(variant).image_handler_enabled)
       THEN Move(c, [Toast(NewCall("test"), "error") EXCEPT !.pc = "done"])
       ELSE Move(c, [NewCall("test") EXCEPT !.pc = "picker"])
    /\ UNCHANGED <<variant, aliased, winSettings, modSettings, initPc, panel, now,
                   ui, eqIn, dom>>

\* fileInput.onchange: the user has picked f
TestPick(c, f) ==
    /\ calls[c].kind = "test"
    /\ calls[c].pc = "picker"
    /\ Move(c, Settle(ProcessStart(Toast(calls[c], "info"), f)))
    /\ UNCHANGED <<variant, aliased, winSettings, modSettings, initPc, panel, now,
                   ui, eqIn, dom>>

\* another script calls window.__processBatchImages(arg)
BatchCall(c, isArray, files) ==
    /\ variant \in HookVariants
    /\ Free(c)
    /\ IF ~isArray \/ Len(files) = 0
       THEN Move(c, [NewCall("batch") EXCEPT
                        !.pc = "done",
                        !.ret = [st |-> "rejected", fields |-> {}, url |-> "",
                                 err |-> Err("Error", MsgBatchArg(variant))]])
       ELSE Move(c, BatchRun([NewCall("batch") EXCEPT !.files = files]))
    /\ UNCHANGED <<variant, aliased, winSettings, modSettings, initPc, panel, now,
                   ui, eqIn, dom>>

(* The host answers *)

HostBase64(c, ok, cid) ==
    /\ Waiting(c, "getBase64Async")
    /\ Move(c, Settle(OnBase64(calls[c], ok, now, cid)))
    /\ UNCHANGED <<variant, aliased, winSettings, modSettings, initPc, panel, now,
                   ui, eqIn, dom>>

HostCharacters(c) ==
    /\ Waiting(c, "characters")
    /\ Move(c, Settle(OnCharacters(calls[c], Characters)))
    /\ UNCHANGED <<variant, aliased, winSettings, modSettings, initPc, panel, now,
                   ui, eqIn, dom>>

HostSaved(c, ok, url) ==
    /\ Waiting(c, "saveBase64AsFile")
    /\ Move(c, Settle(OnSaved(calls[c], ok, url)))
    /\ UNCHANGED <<variant, aliased, winSettings, modSettings, initPc, panel, now,
                   ui, eqIn, dom>>

-----------------------------------------------------------------------------
(* part_000: the stable-image-uploader, which posts the file to an image host *)

RetryCount == 3           \* config.retryCount
MaxFileSizeMB == 32       \* config.maxFileSize
CompressAboveMB == 5      \* uploadImage compresses above 5 MB

AllowedTypes == {<<"image", "jpeg">>, <<"image", "png">>,
                 <<"image", "gif">>, <<"image", "webp">>}

\* result.data.url of the image host's answer
ImgUrls == {"https://i.ibb.co/1.png", "https://i.ibb.co/2.png"}

\* validateFile(file): TRUE, or it throws
ValidFile(f) ==
    /\ f.tag \notin {"null", "none"}
    /\ f.size <= MaxFileSizeMB
    /\ f.mime \in AllowedTypes

\* canvas.toBlob(resolve, file.type, quality): the compressed image
CompressedBlob(f) == MkFile("file", f.mime, "blob", f.bytes, 1)

\* MayRetry with the comparison off by one
MayRetryOffByOne(retryCount) == retryCount <= RetryCount

\* may this failed attempt be followed by another one
MayRetry(retryCount) == retryCount < RetryCount

\* catch (error): wait and try again, or handleError(...) and return null
UploadCatch(k) ==
    IF MayRetry(k.retry)
    THEN [k EXCEPT !.pc = "delay", !.trace = Append(@, Ev("failed", k.retry + 1))]
    ELSE [Toast(k, "error") EXCEPT !.pc = "returned", !.url = "",
                                   !.trace = Append(@, Ev("failed", k.retry + 1))]

\* the POST of the form data
UploadFetch(k) ==
    [k EXCEPT !.pc = "fetch", !.fetches = @ + 1,
              !.trace = Append(@, Ev("fetch", k.retry + 1))]

\* uploadImage(file, retryCount) from its first line to its first await
UploadAttempt(k) ==
    IF ~ValidFile(k.file) THEN UploadCatch(k)
    ELSE IF k.file.size > CompressAboveMB
    THEN [k EXCEPT !.pc = "compressImage"]
    ELSE UploadFetch(k)

\* compressImage resolved: file = blob, the Blob of canvas.toBlob, or null when
\* the canvas could not be encoded
OnCompressed(k, encoded) ==
    UploadFetch([k EXCEPT !.file = IF encoded THEN CompressedBlob(k.file)
                                   ELSE NullFile])

\* catch (error) of an AbortError whose message has only a getter (a
\* DOMException): under 'use strict' the assignment `error.message = ...`
\* throws a TypeError inside the catch block, uploadImage rejects, and the
\* catch of the event handler reports it with handleError
UploadReject(k) ==
    [Toast(k, "error") EXCEPT
         !.pc = "returned", !.url = "",
         !.ret = [st |-> "rejected", fields |-> {}, url |-> "",
                  err |-> Err("TypeError", <<"Cannot set property message">>)],
         !.trace = Append(@, Ev("failed", k.retry + 1))]

\* fetch settled: a response (ok or an HTTP error), or a rejection (network
\* error, or the AbortError of the 30 s timeout, with a message that can be
\* assigned or with a read-only one)
OnFetch(k, resp) ==
    IF resp = "ok" THEN [k EXCEPT !.pc = "json"]
    ELSE IF resp = "abort-readonly" THEN UploadReject(k)
    ELSE UploadCatch(k)

\* response.json() settled: success with a url, or anything else
OnJson(k, ok, url) ==
    IF ok
    THEN [Toast(k, "success") EXCEPT !.pc = "returned", !.url = url,
                                     !.hostUrl = url]
    ELSE UploadCatch(k)

\* delay(config.retryDelay) is over: uploadImage(file, retryCount + 1)
OnDelay(k) == UploadAttempt([k EXCEPT !.retry = @ + 1])

\* ChatAppend that replaces the value of the chat input
ChatAppendOverwrite(chat, url) == <<url>>

\* chatInput.value = currentValue + (currentValue ? '\n' : '') + url, the value
\* as a sequence of pieces of text
ChatAppend(chat, url) ==
    chat \o (IF chat # <<>> THEN <<"\n">> ELSE <<>>) \o <<url>>

\* the handler after `await uploadImage(...)`: show the url, then finally
HandlerFinish(u, k) ==
    LET shown == IF k.url # ""
                 THEN [u EXCEPT !.resultUrl = k.url, !.resultShown = TRUE,
                                !.chat = ChatAppend(@, k.url)]
                 ELSE u
    IN [shown EXCEPT !.progress = "none",
                     !.fileInput = IF k.kind = "change" THEN "" ELSE @]

\* call c of part_000 moves to k; a returned uploadImage resumes the handler
Move0(c, k) ==
    IF k.pc = "returned"
    THEN /\ Move(c, [k EXCEPT !.pc = "done"])
         /\ ui' = HandlerFinish(ui, k)
    ELSE /\ Move(c, k)
         /\ UNCHANGED ui

\* Reschedule that sets the timer of init whatever init found
RescheduleAlways(found) == TRUE

\* init: setTimeout(init, 1000) only when #extensions_settings is missing
Reschedule(found) == ~found

\* init(), at load or from its timer: with the container it appends the panel
\* and sets the 100 ms timer of bindEvents, without it it sets its own timer
InitRun ==
    /\ variant = "part_000"
    /\ ui.initTimer
    /\ ui.initRuns < MaxInitRuns
    /\ ui' = [ui EXCEPT !.initRuns = @ + 1,
                        !.panels = IF ui.container THEN @ + 1 ELSE @,
                        !.bindTimers = IF ui.container THEN @ + 1 ELSE @,
                        !.initTimer = Reschedule(ui.container)]
    /\ UNCHANGED <<variant, aliased, winSettings, modSettings, initPc, panel, now,
                   calls, pending, eqIn, dom>>

\* the host adds #extensions_settings to the document
ContainerAppears ==
    /\ variant = "part_000"
    /\ ~ui.container
    /\ ui' = [ui EXCEPT !.container = TRUE]
    /\ UNCHANGED <<variant, aliased, winSettings, modSettings, initPc, panel, now,
                   calls, pending, eqIn, dom>>

\* the 100 ms timer of init fires: bindEvents() adds one change listener to
\* #image-upload-input and one drop listener to the document
BindTimer ==
    /\ variant = "part_000"
    /\ ui.bindTimers > 0
    /\ ui' = [ui EXCEPT !.bindTimers = @ - 1, !.bound = @ + 1]
    /\ UNCHANGED <<variant, aliased, winSettings, modSettings, initPc, panel, now,
                   calls, pending, eqIn, dom>>

\* every listener bound for the event runs its handler up to the await of
\* uploadImage: n uploads start, in the slots from c on
StartUploads(c, n, kind, f) ==
    LET ids == c..(c + n - 1)
        k0 == UploadAttempt([NewCall(kind) EXCEPT !.file = f])
    IN /\ n >= 1
       /\ c + n - 1 <= MaxCalls
       /\ Free(c)
       /\ calls' = [d \in CallIds |-> IF d \in ids THEN k0 ELSE calls[d]]
       /\ pending' = pending \cup UNION {Awaits(d, k0) : d \in ids}

\* the change handler of #image-upload-input, for a selected file f
FileInputChange(c, f) ==
    /\ variant = "part_000"
    /\ StartUploads(c, ui.bound, "change", f)
    /\ ui' = [ui EXCEPT !.progress = "block", !.resultShown = FALSE,
                        !.fileInput = f.name]
    /\ UNCHANGED <<variant, aliased, winSettings, modSettings, initPc, panel, now,
                   eqIn, dom>>

\* the drop handler of the document, for the first image among the files
DocumentDrop(c, f) ==
    /\ variant = "part_000"
    /\ StartsWithImage(f)
    /\ StartUploads(c, ui.bound, "drop", f)
    /\ ui' = [ui EXCEPT !.progress = "block", !.resultShown = FALSE]
    /\ UNCHANGED <<variant, aliased, winSettings, modSettings, initPc, panel, now,
                   eqIn, dom>>

\* img.onload of compressImage, then the callback of canvas.toBlob
HostCompressed(c, encoded) ==
    /\ Waiting(c, "compressImage")
    /\ Move0(c, OnCompressed(calls[c], encoded))
    /\ UNCHANGED <<variant, aliased, winSettings, modSettings, initPc, panel, now,
                   eqIn, dom>>

\* the image of compressImage fails to load: img has no onerror handler, so
\* the promise of compressImage is never settled
HostImageError(c) ==
    /\ Waiting(c, "compressImage")
    /\ Move(c, [calls[c] EXCEPT !.pc = "imageError"])
    /\ UNCHANGED <<variant, aliased, winSettings, modSettings, initPc, panel, now,
                   ui, eqIn, dom>>

FetchResponses == {"ok", "http-error", "network-error", "abort", "abort-readonly"}

HostFetched(c, resp) ==
    /\ Waiting(c, "fetch")
    /\ Move0(c, OnFetch(calls[c], resp))
    /\ UNCHANGED <<variant, aliased, winSettings, modSettings, initPc, panel, now,
                   eqIn, dom>>

HostJson(c, ok, url) ==
    /\ Waiting(c, "json")
    /\ Move0(c, OnJson(calls[c], ok, url))
    /\ UNCHANGED <<variant, aliased, winSettings, modSettings, initPc, panel, now,
                   eqIn, dom>>

TimerDelay(c) ==
    /\ Waiting(c, "delay")
    /\ Move0(c, OnDelay(calls[c]))
    /\ UNCHANGED <<variant, aliased, winSettings, modSettings, initPc, panel, now,
                   eqIn, dom>>

-----------------------------------------------------------------------------
(* Specification of the upload paths *)

\* the page of part_000 when the script is evaluated, #extensions_settings
\* present: init is about to run, nothing is appended or bound yet
NoUi == [progress |-> "none", resultShown |-> FALSE, resultUrl |-> "",
         chat |-> <<>>, fileInput |-> "",
         container |-> TRUE, initTimer |-> TRUE, initRuns |-> 0,
         panels |-> 0, bindTimers |-> 0, bound |-> 0]

NoEq == [file |-> NoFile, cid |-> Undef, encodeOk |-> TRUE, saveOk |-> TRUE,
         url |-> ""]

NoDom == [patched |-> FALSE, imgs |-> {}, reads |-> {}]

HookFiles == {PngFile, TextFile}

UploaderFiles == {BigPng, BmpFile}

DropFiles == {JpegFile}

\* context.characterId at the time of the call: an index or an avatar name
HookCharacterIds == {"1", "b.png"}

Init ==
    /\ variant \in Variants
    /\ aliased \in (IF variant \in {"part_001", "part_002"} THEN BOOLEAN ELSE {FALSE})
    /\ winSettings = EmptySettings
    /\ modSettings = EmptySettings
    /\ initPc = "loaded"
    /\ panel = InitialPanel
    /\ now = 0
    /\ calls = [c \in CallIds |-> IdleCall]
    /\ pending = {}
    /\ ui = NoUi
    /\ eqIn = NoEq
    /\ dom = NoDom

Next ==
    \/ ReadyMerge
    \/ ReadyShow
    \/ ReadyInit
    \/ \E b \in BOOLEAN : OnImageHandlerToggle(b)
    \/ \E c \in CallIds, f \in HookFiles : HookCall(c, f)
    \/ \E c \in CallIds, f \in HookFiles : CompatCall(c, f)
    \/ \E c \in CallIds : TestClick(c)
    \/ \E c \in CallIds, f \in HookFiles : TestPick(c, f)
    \/ \E c \in CallIds, ok \in BOOLEAN, cid \in HookCharacterIds : HostBase64(c, ok, cid)
    \/ \E c \in CallIds : HostCharacters(c)
    \/ \E c \in CallIds, ok \in BOOLEAN, u \in Urls : HostSaved(c, ok, u)
    \/ InitRun
    \/ BindTimer
    \/ \E c \in CallIds, f \in UploaderFiles : FileInputChange(c, f)
    \/ \E c \in CallIds, f \in DropFiles : DocumentDrop(c, f)
    \/ \E c \in CallIds, encoded \in BOOLEAN : HostCompressed(c, encoded)
    \/ \E c \in CallIds, r \in FetchResponses : HostFetched(c, r)
    \/ \E c \in CallIds, ok \in BOOLEAN, u \in ImgUrls : HostJson(c, ok, u)
    \/ \E c \in CallIds : TimerDelay(c)

Spec == Init /\ [][Next]_vars

-----------------------------------------------------------------------------
(* Properties of the upload paths *)

Count(t, name) == Cardinality({i \in 1..Len(t) : t[i].ev = name})

Before(t, name, j) == \E i \in 1..(j - 1) : t[i].ev = name

ThroughHook(k) == k.kind \in {"process", "test", "compat"}

\* C1: in a call of window.__processImageUpload the host's saveBase64AsFile is
\* invoked at most once and only after getBase64Async has resolved, a success
\* result exists only after saveBase64AsFile has resolved, and its url is the
\* value saveBase64AsFile returned.
C1_EncodePersistResult ==
    \A c \in CallIds :
        LET k == calls[c]
            t == k.trace
        IN ThroughHook(k) =>
            /\ Count(t, "saveBase64AsFile") <= 1
            /\ Len(k.saves) = Count(t, "saveBase64AsFile")
            /\ \A j \in 1..Len(t) :
                   t[j].ev = "saveBase64AsFile" => Before(t, "getBase64Async.ok", j)
            /\ \A j \in 1..Len(t) :
                   t[j].ev = "return" => Before(t, "saveBase64AsFile.ok", j)
            /\ k.proc.st = "fulfilled" =>
                   /\ Count(t, "return") = 1
                   /\ Len(k.saves) = 1
                   /\ k.saves[1].returned \in Urls
                   /\ k.proc.url = k.saves[1].returned

C1_Witness ==
    \E c \in CallIds :
        /\ ThroughHook(calls[c])
        /\ calls[c].proc.st = "fulfilled"
        /\ calls[c].proc.url = "/user/images/2.png"

Succeeded(k) ==
    IF k.v = "part_000" THEN k.pc = "done" /\ k.url # ""
    ELSE k.proc.st = "fulfilled"

ShownUrl(k) == IF k.v = "part_000" THEN k.url ELSE k.proc.url

\* C2 as stated: in every variant, part_000 included, an upload that completed
\* successfully has called saveBase64AsFile and shows the url it returned.
C2_EveryVariantSaves ==
    \A c \in CallIds :
        LET k == calls[c]
        IN Succeeded(k) =>
            /\ Len(k.saves) >= 1
            /\ ShownUrl(k) = k.saves[Len(k.saves)].returned

\* C2 amended: index.js, part_001 and part_002 persist through saveBase64AsFile
\* and return its url; part_000 never calls it: it posts the file with fetch
\* and shows result.data.url of the image host's answer.
C2_PersistsPerVariant ==
    \A c \in CallIds :
        LET k == calls[c]
        IN Succeeded(k) =>
            IF k.v = "part_000"
            THEN /\ k.saves = <<>>
                 /\ k.fetches >= 1
                 /\ k.url \in ImgUrls
                 /\ k.url = k.hostUrl
                 /\ \E i \in 1..Len(ui.chat) : ui.chat[i] = k.url
            ELSE /\ Len(k.saves) = 1
                 /\ k.saves[1].content = Base64Content(DataUrl(k.file))
                 /\ k.saves[1].returned \in Urls
                 /\ k.proc.url = k.saves[1].returned

C2_Witness ==
    \E c \in CallIds :
        /\ calls[c].v = "part_000"
        /\ Succeeded(calls[c])
        /\ ui.resultUrl = calls[c].url

InFlight(k) == k.kind # "idle" /\ k.pc \notin {"idle", "done"}

Reported(k) ==
    CASE k.kind = "test"   -> Count([i \in 1..Len(k.toasts) |-> [ev |-> k.toasts[i]]],
                                    "error") = 1
      [] k.kind = "compat" -> k.ret.st = "rejected" /\ k.ret.err = k.proc.err
      [] OTHER             -> k.proc.st = "rejected" /\ k.proc.err # NoErr

\* C4 as stated: a failure is caught and reported, and the failed operation is
\* not attempted again.
C4_NeverAttemptedAgain ==
    \A c \in CallIds :
        LET k == calls[c]
        IN /\ k.retry = 0
           /\ Count(k.trace, "failed") <= 1
           /\ Count(k.trace, "getBase64Async") <= 1

\* C4 amended: in index.js, part_001 and part_002 a failed call is reported
\* once (rejected promise, error toast of the test upload) and nothing is
\* attempted again; uploadImage of part_000 attempts again after a failure,
\* up to config.retryCount = 3 more times, and an upload that ends without a
\* url has shown exactly one error toast, after the last attempt failed or
\* after uploadImage rejected.
C4_CatchAndReport ==
    \A c \in CallIds :
        LET k == calls[c]
            t == k.trace
        IN IF k.v = "part_000"
           THEN /\ k.retry <= RetryCount
                /\ k.fetches <= RetryCount + 1
                /\ Count(t, "failed") <= RetryCount + 1
                /\ k.pc # "done" => k.toasts = <<>>
                /\ k.pc = "done" /\ k.url = "" =>
                       /\ k.toasts = <<"error">>
                       /\ \/ Count(t, "failed") = RetryCount + 1
                          \/ k.ret.st = "rejected"
                /\ k.pc = "done" /\ k.url # "" => k.toasts = <<"success">>
           ELSE ThroughHook(k) =>
                /\ Count(t, "getBase64Async") <= 1
                /\ Len(k.saves) <= 1
                /\ k.proc.st = "rejected" => k.pc = "done" /\ Reported(k)

C4_Witness ==
    \E c \in CallIds :
        /\ calls[c].v = "part_000"
        /\ calls[c].pc = "done"
        /\ calls[c].url = ""
        /\ calls[c].fetches = RetryCount + 1

\* C6: the adapter hook of part_002 resolves with an object whose only field is
\* url, the url of the processing result; it rejects without any host call when
\* image_handler_enabled is false; it rejects with the error processing
\* rejected with.
C6_AdapterExposesUrl ==
    \A c \in CallIds :
        LET k == calls[c]
        IN k.kind = "compat" =>
            /\ ~Truthy(k.sawEnabled) =>
                   /\ k.pc = "done"
                   /\ k.ret.st = "rejected"
                   /\ k.trace = <<>>
                   /\ k.saves = <<>>
                   /\ \A r \in pending : r.call # c
            /\ k.proc.st = "fulfilled" =>
                   /\ k.ret.st = "fulfilled"
                   /\ k.ret.fields = {"url"}
                   /\ k.ret.url = k.proc.url
            /\ k.proc.st = "rejected" =>
                   /\ k.ret.st = "rejected"
                   /\ k.ret.err = k.proc.err
            /\ k.ret.st = "fulfilled" => Truthy(k.sawEnabled) /\ k.proc.st = "fulfilled"

C6_Witness ==
    \E c, d \in CallIds :
        /\ calls[c].kind = "compat" /\ calls[d].kind = "compat"
        /\ calls[c].ret.st = "rejected" /\ ~Truthy(calls[c].sawEnabled)
        /\ calls[d].ret.st = "fulfilled"

-----------------------------------------------------------------------------
(* Specification of the settings panel: the stored settings the script finds
   at load, the jQuery ready callback, and the events of the panel *)

StoredChoices ==
    {EmptySettings,
     defaultSettings,
     [defaultSettings EXCEPT !.image_handler_enabled = "false"],
     [EmptySettings EXCEPT !.auto_save_images = "false"]}

InitPanel ==
    /\ variant \in HookVariants
    /\ aliased \in (IF variant = "index" THEN {FALSE} ELSE BOOLEAN)
    /\ \E s \in StoredChoices :
           IF variant = "index"
           THEN winSettings = s /\ modSettings = EmptySettings
           ELSE modSettings = s /\ winSettings = (IF aliased THEN s ELSE EmptySettings)
    /\ initPc = "loaded"
    /\ panel = InitialPanel
    /\ now = 0
    /\ calls = [c \in CallIds |-> IdleCall]
    /\ pending = {}
    /\ ui = NoUi
    /\ eqIn = NoEq
    /\ dom = NoDom

NextPanel ==
    \/ ReadyMerge
    \/ ReadyShow
    \/ ReadyInit
    \/ \E b \in BOOLEAN : OnImageHandlerToggle(b)
    \/ \E b \in BOOLEAN : OnAutoSaveToggle(b)
    \/ \E b \in BOOLEAN : OnTimestampToggle(b)
    \/ \E q \in Qualities : OnQualityChange(q)

SpecPanel == InitPanel /\ [][NextPanel]_vars

PanelEnabled == PanelSettings(variant).image_handler_enabled

-----------------------------------------------------------------------------
(* Specification of window.__processBatchImages: one batch call *)

BatchFiles == {PngFile, TextFile, NoTypeObj, NullFile}

BatchArrays == UNION {[1..n -> BatchFiles] : n \in 0..MaxBatch}

InitBatch ==
    /\ variant \in HookVariants
    /\ aliased = FALSE
    /\ winSettings = EmptySettings
    /\ modSettings = EmptySettings
    /\ initPc = "loaded"
    /\ panel = InitialPanel
    /\ now = 0
    /\ calls = [c \in CallIds |-> IdleCall]
    /\ pending = {}
    /\ ui = NoUi
    /\ eqIn = NoEq
    /\ dom = NoDom

NextBatch ==
    \/ ReadyMerge
    \/ ReadyShow
    \/ ReadyInit
    \/ \E b \in BOOLEAN : OnImageHandlerToggle(b)
    \/ \E files \in BatchArrays : BatchCall(1, TRUE, files)
    \/ BatchCall(1, FALSE, <<>>)
    \/ \E ok \in BOOLEAN, cid \in HookCharacterIds : HostBase64(1, ok, cid)
    \/ HostCharacters(1)
    \/ \E ok \in BOOLEAN, u \in Urls : HostSaved(1, ok, u)

SpecBatch == InitBatch /\ [][NextBatch]_vars

\* C8: a batch handles its files one at a time in array order: nothing of
\* element i+1 happens before element i has settled, the element in work is
\* the next of the array, and at most one host operation of the batch is
\* outstanding.
C8_BatchSequential ==
    \A c \in CallIds :
        LET k == calls[c]
            t == k.trace
        IN k.kind = "batch" =>
            /\ \A j \in 1..Len(t) :
                   t[j].i > 1 =>
                       \E h \in 1..(j - 1) : t[h] = Ev("settled", t[j].i - 1)
            /\ \A h, j \in 1..Len(t) : h < j => t[h].i <= t[j].i
            /\ k.pc \in HostOps =>
                   /\ k.idx < Len(k.files)
                   /\ k.file = k.files[k.idx + 1]
                   /\ Count(t, "settled") = k.idx
            /\ k.pc = "done" => pending = {}
            /\ Cardinality({r \in pending : r.call = c}) <= 1

C8_Witness ==
    \E c \in CallIds :
        /\ calls[c].kind = "batch"
        /\ Len(calls[c].files) >= 2
        /\ calls[c].pc = "saveBase64AsFile"
        /\ calls[c].idx = 1
        /\ Len(calls[c].results) = 1
        /\ calls[c].results[1].success = "true"

\* C9: for a non-empty array, whatever its elements are, the call resolves
\* with one entry per element in input order, a failing element yielding
\* {success: false, error, filename}; for a non-array or an empty array it
\* rejects and processes nothing.
C9_BatchAlwaysResolves ==
    \A c \in CallIds :
        LET k == calls[c]
        IN k.kind = "batch" /\ k.pc = "done" =>
            IF k.files = <<>>
            THEN k.ret.st = "rejected" /\ k.trace = <<>> /\ k.results = <<>>
            ELSE /\ k.ret.st = "fulfilled"
                 /\ Len(k.results) = Len(k.files)
                 /\ \A i \in 1..Len(k.files) :
                        k.results[i].success = "false" =>
                            /\ k.results[i].fields = {"success", "error", "filename"}
                            /\ k.results[i].name = k.files[i].name
                            /\ k.results[i].error # <<>>

-----------------------------------------------------------------------------
(* Specification of the equivalence runs: the hooks of index.js, part_001 and
   part_002 are run on the same file, settings, context and host answers *)

EqIds == 1..3

EqVariant(c) == <<"index", "part_001", "part_002">>[c]

EqFiles == {PngFile, BareImage, TextFile, NoTypeObj, NullFile}

EqSettings ==
    {defaultSettings,
     [defaultSettings EXCEPT !.image_handler_enabled = "false"],
     [defaultSettings EXCEPT !.use_timestamp_prefix = "false"]}

InitEq ==
    /\ variant = "index"
    /\ aliased = TRUE
    /\ winSettings \in EqSettings
    /\ modSettings = winSettings
    /\ initPc = "done"
    /\ panel = ShowSettings(InitialPanel, winSettings)
    /\ now \in 0..MaxClock
    /\ calls = [c \in EqIds |-> IdleCall]
    /\ pending = {}
    /\ ui = NoUi
    /\ eqIn \in [file : EqFiles, cid : CharacterIds, encodeOk : BOOLEAN,
                 saveOk : BOOLEAN, url : Urls]
    /\ dom = NoDom

EqStart(c) ==
    /\ calls[c].kind = "idle"
    /\ Move(c, Settle(ProcessStart([IdleCall EXCEPT !.v = EqVariant(c),
                                                    !.kind = "process"],
                                   eqIn.file)))
    /\ UNCHANGED <<variant, aliased, winSettings, modSettings, initPc, panel, now,
                   ui, eqIn, dom>>

EqBase64(c) ==
    /\ Waiting(c, "getBase64Async")
    /\ Move(c, Settle(OnBase64(calls[c], eqIn.encodeOk, now, eqIn.cid)))
    /\ UNCHANGED <<variant, aliased, winSettings, modSettings, initPc, panel, now,
                   ui, eqIn, dom>>

EqCharacters(c) ==
    /\ Waiting(c, "characters")
    /\ Move(c, Settle(OnCharacters(calls[c], Characters)))
    /\ UNCHANGED <<variant, aliased, winSettings, modSettings, initPc, panel, now,
                   ui, eqIn, dom>>

EqSaved(c) ==
    /\ Waiting(c, "saveBase64AsFile")
    /\ Move(c, Settle(OnSaved(calls[c], eqIn.saveOk, eqIn.url)))
    /\ UNCHANGED <<variant, aliased, winSettings, modSettings, initPc, panel, now,
                   ui, eqIn, dom>>

NextEq ==
    \/ \E c \in EqIds : EqStart(c)
    \/ \E c \in EqIds : EqBase64(c)
    \/ \E c \in EqIds : EqCharacters(c)
    \/ \E c \in EqIds : EqSaved(c)

SpecEq == InitEq /\ [][NextEq]_vars

\* what a call of the hook did: how its promise settled, what it passed to
\* saveBase64AsFile and got back, and the result's fields
EqOutcome(k) ==
    [st |-> k.proc.st, saves |-> k.saves, url |-> k.proc.url,
     filename |-> k.proc.filename, character |-> k.proc.character]

\* C5: for the same file, settings, host context and host answers the hooks
\* of index.js, part_001 and part_002 end with the same outcome.
C5_SameOutcome ==
    (\A c \in EqIds : calls[c].pc = "done") =>
        \A c, d \in EqIds : EqOutcome(calls[c]) = EqOutcome(calls[d])

-----------------------------------------------------------------------------
(* window.__preprocessImage, and the page with the interception variant
   loaded.  The interception variant itself is not among the sources: its
   patches of document.createElement and FileReader are modelled from the
   specification. *)

MaxPreprocessMB == 5      \* maxSize = 5 * 1024 * 1024

UrlKinds == {"data", "blob", "http"}

\* Redirect that leaves every URL as it is
RedirectNothing(patched, kind) == kind

\* document.createElement / FileReader as patched by the interception variant:
\* an inline base64 data URL becomes a blob URL
Redirect(patched, kind) == IF patched /\ kind = "data" THEN "blob" ELSE kind

\* e.target.result of reader.readAsDataURL(file)
ReaderResult(patched) == Redirect(patched, "data")

\* window.__preprocessImage(file) up to reader.readAsDataURL(file)
PreprocessStart(k, f) ==
    IF f.size > MaxPreprocessMB
    THEN [k EXCEPT !.pc = "done", !.file = f,
                   !.ret = [st |-> "rejected", fields |-> {}, url |-> "",
                            err |-> Err("Error", <<"Image file is too large.">>)]]
    ELSE [k EXCEPT !.pc = "readAsDataURL", !.file = f]

\* reader.onload: img = new Image(); img.src = e.target.result
\* reader.onerror: reject
OnReader(k, ok, result) ==
    IF ok
    THEN [k EXCEPT !.pc = "imageLoad", !.url = result]
    ELSE [k EXCEPT !.pc = "done",
                   !.ret = [st |-> "rejected", fields |-> {}, url |-> "",
                            err |-> Err("Error", <<"File reading failed.">>)]]

\* img.onload: resolve({file, width, height, size, type}); img.onerror: reject
OnImage(k, ok) ==
    IF ok
    THEN [k EXCEPT !.pc = "done",
                   !.ret = [st |-> "fulfilled",
                            fields |-> {"file", "width", "height", "size", "type"},
                            url |-> "", err |-> NoErr]]
    ELSE [k EXCEPT !.pc = "done",
                   !.ret = [st |-> "rejected", fields |-> {}, url |-> "",
                            err |-> Err("Error", <<"Could not read the image file.">>)]]

PreprocessCall(c, f) ==
    /\ variant \in HookVariants
    /\ Free(c)
    /\ calls' = [calls EXCEPT ![c] = PreprocessStart(NewCall("preprocess"), f)]
    /\ UNCHANGED <<variant, aliased, winSettings, modSettings, initPc, panel, now,
                   pending, ui, eqIn, dom>>

ReaderDone(c, ok) ==
    /\ calls[c].kind = "preprocess"
    /\ calls[c].pc = "readAsDataURL"
    /\ calls' = [calls EXCEPT ![c] = OnReader(@, ok, ReaderResult(dom.patched))]
    /\ dom' = IF ok
              THEN [dom EXCEPT !.reads = @ \cup {ReaderResult(dom.patched)},
                               !.imgs = @ \cup {[by |-> "Image",
                                                 src |-> ReaderResult(dom.patched)]}]
              ELSE dom
    /\ UNCHANGED <<variant, aliased, winSettings, modSettings, initPc, panel, now,
                   pending, ui, eqIn>>

ImageDone(c, ok) ==
    /\ calls[c].kind = "preprocess"
    /\ calls[c].pc = "imageLoad"
    /\ calls' = [calls EXCEPT ![c] = OnImage(@, ok)]
    /\ UNCHANGED <<variant, aliased, winSettings, modSettings, initPc, panel, now,
                   pending, ui, eqIn, dom>>

\* the host's rendering creates an image element and gives it a src
HostCreatesImage(kind) ==
    /\ dom' = [dom EXCEPT !.imgs = @ \cup {[by |-> "createElement",
                                            src |-> Redirect(dom.patched, kind)]}]
    /\ UNCHANGED <<variant, aliased, winSettings, modSettings, initPc, panel, now,
                   calls, pending, ui, eqIn>>

PreprocessFiles == {PngFile, BigPng}

InitIntercept ==
    /\ variant \in HookVariants
    /\ aliased = FALSE
    /\ winSettings = EmptySettings
    /\ modSettings = EmptySettings
    /\ initPc = "loaded"
    /\ panel = InitialPanel
    /\ now = 0
    /\ calls = [c \in CallIds |-> IdleCall]
    /\ pending = {}
    /\ ui = NoUi
    /\ eqIn = NoEq
    /\ dom \in [patched : BOOLEAN, imgs : {{}}, reads : {{}}]

NextIntercept ==
    \/ \E c \in CallIds, f \in PreprocessFiles : PreprocessCall(c, f)
    \/ \E c \in CallIds, ok \in BOOLEAN : ReaderDone(c, ok)
    \/ \E c \in CallIds, ok \in BOOLEAN : ImageDone(c, ok)
    \/ \E kind \in UrlKinds : HostCreatesImage(kind)

SpecIntercept == InitIntercept /\ [][NextIntercept]_vars

-----------------------------------------------------------------------------
(* Specification of the uploader of part_000: file selections and drops, the
   answers of the host, and the chat input as the uploader finds it *)

\* value of #send_textarea before the first upload, as pieces of text
EarlierContents == {<<>>, <<"hi">>}

InitUploader ==
    /\ variant = "part_000"
    /\ aliased = FALSE
    /\ winSettings = EmptySettings
    /\ modSettings = EmptySettings
    /\ initPc = "loaded"
    /\ panel = InitialPanel
    /\ now = 0
    /\ calls = [c \in CallIds |-> IdleCall]
    /\ pending = {}
    /\ ui \in {[NoUi EXCEPT !.chat = t] : t \in EarlierContents}
    /\ eqIn = NoEq
    /\ dom = NoDom

NextUploader ==
    \/ InitRun
    \/ BindTimer
    \/ \E c \in CallIds, f \in UploaderFiles : FileInputChange(c, f)
    \/ \E c \in CallIds, f \in DropFiles : DocumentDrop(c, f)
    \/ \E c \in CallIds, encoded \in BOOLEAN : HostCompressed(c, encoded)
    \/ \E c \in CallIds : HostImageError(c)
    \/ \E c \in CallIds, r \in FetchResponses : HostFetched(c, r)
    \/ \E c \in CallIds, ok \in BOOLEAN, u \in ImgUrls : HostJson(c, ok, u)
    \/ \E c \in CallIds : TimerDelay(c)

SpecUploader == InitUploader /\ [][NextUploader]_vars

IsUpload(k) == k.kind \in {"change", "drop"}

\* C11: one call of uploadImage makes at most config.retryCount + 1 attempts,
\* every failed attempt is followed by the wait and another attempt until the
\* retries are used up, and the call ends either with the url of the first
\* successful attempt and one success toast, or with null and one error toast
\* after the last failure; it never rejects.
C11_BoundedRetry ==
    \A c \in CallIds :
        LET k == calls[c]
            t == k.trace
        IN IsUpload(k) =>
            /\ k.retry <= RetryCount
            /\ Count(t, "failed") <= RetryCount + 1
            /\ k.ret.st # "rejected"
            /\ k.pc = "delay" => t[Len(t)].ev = "failed" /\ k.retry < RetryCount
            /\ k.pc = "done" =>
                   \/ /\ k.url \in ImgUrls
                      /\ k.toasts = <<"success">>
                      /\ Count(t, "failed") = k.retry
                   \/ /\ k.url = ""
                      /\ k.toasts = <<"error">>
                      /\ Count(t, "failed") = RetryCount + 1

\* every host operation that is outstanding is answered in the end: a fetch
\* settles or is aborted by the timeout, a timer fires, a loaded image is
\* encoded
UploaderFairness ==
    \A c \in CallIds :
        /\ WF_vars(\E encoded \in BOOLEAN : HostCompressed(c, encoded))
        /\ WF_vars(\E r \in FetchResponses : HostFetched(c, r))
        /\ WF_vars(\E ok \in BOOLEAN, u \in ImgUrls : HostJson(c, ok, u))
        /\ WF_vars(TimerDelay(c))

SpecUploaderFair == SpecUploader /\ UploaderFairness

\* C12: every upload started from the file input or by a drop finishes, a
\* file above 5 MB whose image fails to load included, and the progress
\* indicator is hidden again.
C12_EventuallyFinishes ==
    /\ \A c \in CallIds : IsUpload(calls[c]) ~> (calls[c].pc = "done")
    /\ (ui.progress = "block") ~> (ui.progress = "none")

\* C13: #upload-progress is displayed exactly while at least one upload is in
\* flight.
C13_ProgressWhileInFlight ==
    (ui.progress = "block") <=> (\E c \in CallIds : InFlight(calls[c]))

\* the uploads that ended with a url
SucceededUploads == {c \in CallIds : IsUpload(calls[c]) /\ Succeeded(calls[c])}

\* the uploads that end in this step
Finishing == {c \in CallIds : IsUpload(calls[c]') /\ calls[c].pc # "done"
                                 /\ calls[c]'.pc = "done"}

\* the value of the chat input without its earlier content
RECURSIVE UrlsOf(_)
UrlsOf(chat) ==
    IF chat = <<>> THEN <<>>
    ELSE IF chat[1] \in ImgUrls THEN <<chat[1]>> \o UrlsOf(Tail(chat))
    ELSE UrlsOf(Tail(chat))

\* C14: the chat input is its earlier content followed by the url of every
\* upload that succeeded, each appended once, in order of completion, after a
\* newline unless the field was empty; an upload that fails leaves the chat
\* input and the result textarea as they were.
C14_ChatKeepsEveryUrl ==
    /\ [](/\ Len(UrlsOf(ui.chat)) = Cardinality(SucceededUploads)
          /\ \A c \in SucceededUploads :
                 \E i \in 1..Len(ui.chat) :
                     /\ ui.chat[i] = calls[c].url
                     /\ i > 1 => ui.chat[i - 1] = "\n"
          /\ ui.chat # <<>> => ui.chat[1] # "\n")
    /\ [][\/ /\ \E c \in Finishing : calls[c]'.url # ""
             /\ \A c \in Finishing :
                    /\ ui'.chat = ui.chat \o (IF ui.chat = <<>> THEN <<>> ELSE <<"\n">>)
                                          \o <<calls[c]'.url>>
                    /\ ui'.resultUrl = calls[c]'.url
          \/ /\ \A c \in Finishing : calls[c]'.url = ""
             /\ ui'.chat = ui.chat
             /\ ui'.resultUrl = ui.resultUrl]_vars

C14_Witness ==
    /\ Cardinality(SucceededUploads) = 2
    /\ \E c \in SucceededUploads : calls[c].retry > 0
    /\ Len(ui.chat) = 5
    /\ ui.chat[1] = "hi"
    /\ ui.chat[3] # ui.chat[5]

-----------------------------------------------------------------------------
(* Properties of the settings as the hooks read them *)

\* C15: in index.js, unless the handler has been switched off, a call of
\* window.__processImageUpload with a valid image is never rejected as
\* disabled, whenever after the installation of the hook it is made.
C15_EnabledByDefault ==
    [][\A c \in CallIds, f \in HookFiles :
           /\ variant = "index"
           /\ HookCall(c, f)
           /\ StartsWithImage(f)
           /\ winSettings.image_handler_enabled # Bool(FALSE)
           => calls[c]'.proc.err # Err("Error", MsgDisabled)]_vars

-----------------------------------------------------------------------------
(* Specification of the timestamp setting in part_001 and part_002: the
   panel writes extension_settings[extensionName], the hook reads
   window.extension_settings[extensionName]; the host decides whether
   window.extension_settings is the imported extension_settings *)

\* new Date().getTime() moves on
Tick ==
    /\ now < MaxClock
    /\ now' = now + 1
    /\ UNCHANGED <<variant, aliased, winSettings, modSettings, initPc, panel,
                   calls, pending, ui, eqIn, dom>>

StampFiles == {PngFile}

InitStamp ==
    /\ variant \in {"part_001", "part_002"}
    /\ aliased \in BOOLEAN
    /\ modSettings \in {EmptySettings, defaultSettings}
    /\ winSettings = IF aliased THEN modSettings ELSE EmptySettings
    /\ initPc = "loaded"
    /\ panel = InitialPanel
    /\ now = 0
    /\ calls = [c \in CallIds |-> IdleCall]
    /\ pending = {}
    /\ ui = NoUi
    /\ eqIn = NoEq
    /\ dom = NoDom

NextStamp ==
    \/ ReadyInit
    \/ \E b \in BOOLEAN : OnTimestampToggle(b)
    \/ \E c \in CallIds, f \in StampFiles : HookCall(c, f)
    \/ \E c \in CallIds, ok \in BOOLEAN, cid \in HookCharacterIds : HostBase64(c, ok, cid)
    \/ \E c \in CallIds : HostCharacters(c)
    \/ \E c \in CallIds, ok \in BOOLEAN, u \in Urls : HostSaved(c, ok, u)
    \/ Tick

SpecStamp == InitStamp /\ [][NextStamp]_vars

\* C16: in part_001 and part_002 the settings object the handlers write and
\* the one the hook reads agree, and once onTimestampToggle has stored
\* use_timestamp_prefix a later window.__processImageUpload builds its
\* filename with the timestamp prefix exactly when the stored value is true.
C16_ToggleTakesEffect ==
    /\ [](initPc = "done" =>
              winSettings.use_timestamp_prefix = modSettings.use_timestamp_prefix)
    /\ [][\A c \in CallIds :
              /\ initPc = "done"
              /\ calls[c].pc = "getBase64Async"
              /\ calls[c]'.pc = "characters"
              => (calls[c]'.prefix.ts # -1
                      <=> modSettings.use_timestamp_prefix = Bool(TRUE))]_vars

\* C17: when initializeSettings has merged, each of the four keys has a
\* value: the stored one where there was one, the default one otherwise,
\* whether the stored object was empty, partial or complete.
C17_DefaultsMerged ==
    [][initPc = "loaded" /\ initPc' # "loaded" =>
           \A key \in SettingKeys :
               /\ PanelSettings(variant)'[key] # Undef
               /\ PanelSettings(variant)'[key] =
                      IF PanelSettings(variant)[key] # Undef
                      THEN PanelSettings(variant)[key]
                      ELSE defaultSettings[key]]_vars

-----------------------------------------------------------------------------
(* Specification of the initialisation of part_000: the script is evaluated
   with or without #extensions_settings in the document *)

InitFiles == {BmpFile}

InitInit ==
    /\ variant = "part_000"
    /\ aliased = FALSE
    /\ winSettings = EmptySettings
    /\ modSettings = EmptySettings
    /\ initPc = "loaded"
    /\ panel = InitialPanel
    /\ now = 0
    /\ calls = [c \in CallIds |-> IdleCall]
    /\ pending = {}
    /\ ui \in {[NoUi EXCEPT !.container = b] : b \in BOOLEAN}
    /\ eqIn = NoEq
    /\ dom = NoDom

NextInit ==
    \/ InitRun
    \/ ContainerAppears
    \/ BindTimer
    \/ \E c \in CallIds, f \in InitFiles : FileInputChange(c, f)
    \/ \E c \in CallIds, f \in DropFiles : DocumentDrop(c, f)
    \/ \E c \in CallIds, r \in FetchResponses : HostFetched(c, r)
    \/ \E c \in CallIds, ok \in BOOLEAN, u \in ImgUrls : HostJson(c, ok, u)
    \/ \E c \in CallIds : TimerDelay(c)

SpecInit == InitInit /\ [][NextInit]_vars

\* the uploads that start in this step
Starting == {c \in CallIds : calls[c].kind = "idle" /\ calls[c]'.kind # "idle"}

\* C18: init keeps its timer set while the container is missing; once the
\* container is found the panel is appended once and bindEvents runs once,
\* however many times init ran, and a file selection or a drop starts one
\* upload.
C18_InitOnce ==
    /\ [](/\ ui.panels <= 1
          /\ ui.bound + ui.bindTimers = ui.panels
          /\ ui.initTimer <=> ui.panels = 0
          /\ ~ui.container => ui.panels = 0)
    /\ [][/\ Cardinality(Starting) <= 1
          /\ Starting # {} => ui.bound = 1 /\ ui.panels = 1]_vars

C18_Witness ==
    /\ ui.initRuns >= 3
    /\ ui.bound = 1
    /\ \E c, d \in CallIds : calls[c].kind = "change" /\ calls[d].kind = "drop"
====
